---- MODULE Spec2Model ----
(***************************************************************************)
(* CAN bus simulator (src/CAN_simulator/can_simulator.py).                 *)
(*                                                                         *)
(* CANFrame.to_wire_bits and _int_to_bits are operators.  CANBus is a      *)
(* state machine: one controller thread calls start() and stop(), any      *)
(* thread calls enqueue() and history(), and every start() creates one     *)
(* worker thread that runs CANBus._worker statement by statement.          *)
(***************************************************************************)
EXTENDS Integers, Sequences, FiniteSets, TLC

\* ------------------------------------------------------------------ bounds

\* start() calls explored (each creates one worker thread)
MaxStarts == 2
\* enqueue() calls explored
MaxEnq == 2

\* ------------------------------------------------------- program constants

DOMINANT == 0
RECESSIVE == 1

STD_ID_BITS == 11
EXT_ID_BITS == 29
DLC_BITS == 4
BYTE_BITS == 8
CRC_BITS == 15
EOF_BITS == 7

\* 0x7FF and 0x1FFFFFFF
STD_ID_MAX == 2047
EXT_ID_MAX == 536870911
\* the payload limit (16 hex digits)
MAX_DLC == 8

\* durations, in units of 10 ms: bit_time = 0.03, get(timeout=0.1),
\* join(timeout=1.0)
BIT_TIME == 3
JOIN_TIMEOUT == 100
\* a get() that waits longer than the join()
POLL_TIMEOUT_Long == JOIN_TIMEOUT + 1
POLL_TIMEOUT == 10

\* ------------------------------------------------------------- the encoder

\* value >> shift for a non-negative shift
Shr(value, shift) == value \div (2 ^ shift)

\* least significant bit first
int_to_bits_lsb(value, width) ==
    [i \in 1..width |-> Shr(value, i - 1) % 2]

\* as many bits as the value needs when width bits are too few
int_to_bits_grow(value, width) ==
    IF value >= 2 ^ width
    THEN [i \in 1..(width + 1) |-> Shr(value, width + 1 - i) % 2]
    ELSE [i \in 1..width |-> Shr(value, width - i) % 2]

\* [(value >> shift) & 1 for shift in range(width - 1, -1, -1)]
int_to_bits(value, width) ==
    [i \in 1..width |-> Shr(value, width - i) % 2]

\* the length in bits instead of bytes
dlc_in_bits(frame) == BYTE_BITS * Len(frame.data)

dlc(frame) == Len(frame.data)

Repeat(level, n) == [i \in 1..n |-> level]

\* for byte in self.data: bits.extend(_int_to_bits(byte, 8))
RECURSIVE data_bits(_)
data_bits(data) ==
    IF data = <<>> THEN <<>>
    ELSE int_to_bits(Head(data), BYTE_BITS) \o data_bits(Tail(data))

\* the format-control bits of the two frame classes exchanged
id_field_swapped(frame) ==
    IF frame.ext
    THEN int_to_bits(frame.id, EXT_ID_BITS) \o <<DOMINANT, DOMINANT, DOMINANT>>
    ELSE int_to_bits(frame.id, STD_ID_BITS) \o <<RECESSIVE, RECESSIVE>>

id_field(frame) ==
    IF frame.ext
    THEN int_to_bits(frame.id, EXT_ID_BITS) \o <<RECESSIVE, RECESSIVE>>
    ELSE int_to_bits(frame.id, STD_ID_BITS) \o <<DOMINANT, DOMINANT, DOMINANT>>

\* the trailer without the three bits of CRC delimiter, ACK slot and ACK delimiter
trailer_no_ack == Repeat(RECESSIVE, CRC_BITS) \o Repeat(RECESSIVE, EOF_BITS)

trailer ==
    Repeat(RECESSIVE, CRC_BITS) \o <<RECESSIVE, RECESSIVE, RECESSIVE>>
        \o Repeat(RECESSIVE, EOF_BITS)

to_wire_bits(frame) ==
    <<DOMINANT>> \o id_field(frame) \o int_to_bits(dlc(frame), DLC_BITS)
        \o data_bits(frame.data) \o trailer

\* ---------------------------------------------------------------- the bus

VARIABLES
    current_level,  \* CANBus.current_level
    tx_queue,       \* CANBus._tx_queue, head first
    history,        \* CANBus._history
    running,        \* CANBus._running
    thread,         \* CANBus._thread: 0 is None, else the worker last created
    pc,             \* per worker: where it stands in _worker
    frame,          \* per worker: _worker's local frame
    bits,           \* per worker: _worker's local bits
    index,          \* per worker: the for loop's index (the next bit to emit)
    sent,           \* every frame handed to enqueue(), in call order
    snap,           \* the list the last history() call returned
    cpc,            \* the controller: "idle", or "joining" inside stop()
    timer,          \* per worker: time left of its get() wait or bit sleep
    join_timer,     \* time left of the join() in stop()
    enc_frame,      \* the frame handed to to_wire_bits
    enc_out,        \* what to_wire_bits returned for it, <<>> before the call
    parse_raw,      \* the string handed to parse_frame
    parse_out,      \* what parse_frame did with it
    mpc,            \* main(): "boot", "loop", "joining" or "done"
    cmd_raw,        \* the descriptor of the last send command
    cmd_out,        \* what main() printed for the last command
    wire_log,       \* the levels written to current_level since the last get()
    hist_at_stop    \* len(_history) when stop() last cleared a set flag

busvars == <<current_level, tx_queue, history, running, thread, pc, frame, bits,
             index, sent, snap>>
timevars == <<cpc, timer, join_timer>>
encvars == <<enc_frame, enc_out>>
parsevars == <<parse_raw, parse_out>>
cmdvars == <<mpc, cmd_raw, cmd_out>>
obsvars == <<wire_log, hist_at_stop>>
vars == <<busvars, timevars, encvars, parsevars, cmdvars, obsvars>>

\* what the bus operations on their own leave alone
offbus == <<timevars, encvars, parsevars, cmdvars, obsvars>>
\* what the timed bus operations leave alone
offtimed == <<encvars, parsevars, cmdvars, obsvars>>

Workers == 1..MaxStarts

NoFrame == [id |-> 0, data |-> <<>>, ext |-> FALSE, ts |-> 0]

\* CANFrame(...): timestamp is the creation instant, here the creation rank
CANFrame(id, data, ext, ts) == [id |-> id, data |-> data, ext |-> ext, ts |-> ts]

\* the frame the callers enqueue when start() may be called again: 123#
BusFrames ==
    { [id |-> 291, data |-> <<>>, ext |-> FALSE] }

\* the frames the callers enqueue on a bus started once:
\* 123#, 2AA#5A and 18DAF110#
WideFrames ==
    { [id |-> 291, data |-> <<>>, ext |-> FALSE],
      [id |-> 682, data |-> <<90>>, ext |-> FALSE],
      [id |-> 417001744, data |-> <<>>, ext |-> TRUE] }

\* CANBus.__init__
BusInit ==
    /\ current_level = RECESSIVE
    /\ tx_queue = <<>>
    /\ history = <<>>
    /\ running = FALSE
    /\ thread = 0
    /\ pc = [w \in Workers |-> "unborn"]
    /\ frame = [w \in Workers |-> NoFrame]
    /\ bits = [w \in Workers |-> <<>>]
    /\ index = [w \in Workers |-> 0]
    /\ sent = <<>>
    /\ snap = <<>>
    /\ cpc = "idle"
    /\ timer = [w \in Workers |-> 0]
    /\ join_timer = 0

\* nothing parsed, no command read, nothing observed yet
RestInit ==
    /\ parse_raw = <<>>
    /\ parse_out = [ok |-> FALSE, error |-> "none"]
    /\ mpc = "boot"
    /\ cmd_raw = <<>>
    /\ cmd_out = [cmd |-> "none", printed |-> <<>>]
    /\ wire_log = <<>>
    /\ hist_at_stop = 0

Init ==
    /\ BusInit
    /\ RestInit
    /\ enc_frame = NoFrame
    /\ enc_out = <<>>

\* start(): sets the flag and creates a worker, whether or not one is live
Start ==
    /\ thread < MaxStarts
    /\ running' = TRUE
    /\ thread' = thread + 1
    /\ pc' = [pc EXCEPT ![thread + 1] = "check"]
    /\ UNCHANGED <<current_level, tx_queue, history, frame, bits, index, sent,
                   snap>>

\* stop(): clears the flag.  The join(timeout=1.0) that follows blocks only
\* the caller and writes nothing; TimedSpec follows its wait.
Stop ==
    /\ running' = FALSE
    /\ UNCHANGED <<current_level, tx_queue, history, thread, pc, frame, bits,
                   index, sent, snap>>

\* a LIFO queue: put at the head
queue_put_front(q, f) == <<f>> \o q

\* queue.Queue.put: at the tail
queue_put(q, f) == Append(q, f)

\* enqueue(frame)
Enqueue(f) ==
    /\ Len(sent) < MaxEnq
    /\ LET fr == CANFrame(f.id, f.data, f.ext, Len(sent) + 1)
       IN /\ tx_queue' = queue_put(tx_queue, fr)
          /\ sent' = Append(sent, fr)
    /\ UNCHANGED <<current_level, history, running, thread, pc, frame, bits,
                   index, snap>>

\* a history() that hands the list over and leaves none behind
History_Drain ==
    /\ snap' = history
    /\ history' = <<>>
    /\ UNCHANGED <<current_level, tx_queue, running, thread, pc, frame, bits,
                   index, sent>>

\* history(): list(self._history)
History ==
    /\ snap' = history
    /\ UNCHANGED <<current_level, tx_queue, history, running, thread, pc, frame,
                   bits, index, sent>>

\* while True:
WorkerCheck_Forever(w) ==
    /\ pc[w] = "check"
    /\ pc' = [pc EXCEPT ![w] = "get"]
    /\ UNCHANGED <<current_level, tx_queue, history, running, thread, frame,
                   bits, index, sent, snap>>

\* while self._running:
WorkerCheck(w) ==
    /\ pc[w] = "check"
    /\ pc' = [pc EXCEPT ![w] = IF running THEN "get" ELSE "exit"]
    /\ UNCHANGED <<current_level, tx_queue, history, running, thread, frame,
                   bits, index, sent, snap>>

\* queue.Queue.get: from the head
queue_get(q) == Head(q)

\* a get() that leaves the frame at the head of the queue
WorkerGet_Peek(w) ==
    /\ pc[w] = "get"
    /\ tx_queue # <<>>
    /\ frame' = [frame EXCEPT ![w] = queue_get(tx_queue)]
    /\ bits' = [bits EXCEPT ![w] = to_wire_bits(queue_get(tx_queue))]
    /\ index' = [index EXCEPT ![w] = 1]
    /\ pc' = [pc EXCEPT ![w] = "emit"]
    /\ UNCHANGED <<current_level, tx_queue, history, running, thread, sent, snap>>

\* frame = self._tx_queue.get(timeout=0.1); bits = frame.to_wire_bits()
WorkerGet(w) ==
    /\ pc[w] = "get"
    /\ tx_queue # <<>>
    /\ frame' = [frame EXCEPT ![w] = queue_get(tx_queue)]
    /\ tx_queue' = Tail(tx_queue)
    /\ bits' = [bits EXCEPT ![w] = to_wire_bits(queue_get(tx_queue))]
    /\ index' = [index EXCEPT ![w] = 1]
    /\ pc' = [pc EXCEPT ![w] = "emit"]
    /\ UNCHANGED <<current_level, history, running, thread, sent, snap>>

\* except queue.Empty: continue
WorkerEmpty(w) ==
    /\ pc[w] = "get"
    /\ tx_queue = <<>>
    /\ pc' = [pc EXCEPT ![w] = "check"]
    /\ UNCHANGED <<current_level, tx_queue, history, running, thread, frame,
                   bits, index, sent, snap>>

\* DOMINANT if bit else RECESSIVE
level_of_inverted(bit) == IF bit # 0 THEN DOMINANT ELSE RECESSIVE

\* RECESSIVE if bit else DOMINANT
level_of(bit) == IF bit # 0 THEN RECESSIVE ELSE DOMINANT

\* a for loop that breaks off when the flag is cleared
WorkerEmit_Cancellable(w) ==
    /\ pc[w] = "emit"
    /\ current_level' = IF running THEN level_of(bits[w][index[w]]) ELSE current_level
    /\ index' = [index EXCEPT ![w] = IF running THEN @ + 1 ELSE @]
    /\ pc' = [pc EXCEPT ![w] = IF ~running THEN "check"
                               ELSE IF index[w] = Len(bits[w]) THEN "reset"
                               ELSE "emit"]
    /\ UNCHANGED <<tx_queue, history, running, thread, frame, bits, sent, snap>>

\* one turn of the for loop: write the level, sleep bit_time
WorkerEmit(w) ==
    /\ pc[w] = "emit"
    /\ current_level' = level_of(bits[w][index[w]])
    /\ index' = [index EXCEPT ![w] = @ + 1]
    /\ pc' = [pc EXCEPT ![w] = IF index[w] = Len(bits[w]) THEN "reset" ELSE "emit"]
    /\ UNCHANGED <<tx_queue, history, running, thread, frame, bits, sent, snap>>

\* self.current_level = DOMINANT
WorkerReset_Dominant(w) ==
    /\ pc[w] = "reset"
    /\ current_level' = DOMINANT
    /\ pc' = [pc EXCEPT ![w] = "append"]
    /\ UNCHANGED <<tx_queue, history, running, thread, frame, bits, index, sent,
                   snap>>

\* self.current_level = RECESSIVE
WorkerReset(w) ==
    /\ pc[w] = "reset"
    /\ current_level' = RECESSIVE
    /\ pc' = [pc EXCEPT ![w] = "append"]
    /\ UNCHANGED <<tx_queue, history, running, thread, frame, bits, index, sent,
                   snap>>

\* self._history.insert(0, frame)
history_insert_front(h, f) == <<f>> \o h

\* self._history.append(frame)
history_append(h, f) == Append(h, f)

\* an append that goes straight back to get() without testing the flag
WorkerAppend_NoTest(w) ==
    /\ pc[w] = "append"
    /\ history' = history_append(history, frame[w])
    /\ pc' = [pc EXCEPT ![w] = "get"]
    /\ frame' = [frame EXCEPT ![w] = NoFrame]
    /\ bits' = [bits EXCEPT ![w] = <<>>]
    /\ index' = [index EXCEPT ![w] = 0]
    /\ UNCHANGED <<current_level, tx_queue, running, thread, sent, snap>>

\* with self._lock: self._history.append(frame)
\* The locals frame, bits and index are dead from here until the next get()
\* assigns them again, so they go back to their initial values.
WorkerAppend(w) ==
    /\ pc[w] = "append"
    /\ history' = history_append(history, frame[w])
    /\ pc' = [pc EXCEPT ![w] = "check"]
    /\ frame' = [frame EXCEPT ![w] = NoFrame]
    /\ bits' = [bits EXCEPT ![w] = <<>>]
    /\ index' = [index EXCEPT ![w] = 0]
    /\ UNCHANGED <<current_level, tx_queue, running, thread, sent, snap>>

Worker(w) ==
    \/ WorkerCheck(w)
    \/ WorkerGet(w)
    \/ WorkerEmpty(w)
    \/ WorkerEmit(w)
    \/ WorkerReset(w)
    \/ WorkerAppend(w)

\* Any interleaving of the callers and the workers, start() as often as the
\* bound allows.
Next ==
    \/ Start /\ UNCHANGED offbus
    \/ Stop /\ UNCHANGED offbus
    \/ \E f \in BusFrames : Enqueue(f) /\ UNCHANGED offbus
    \/ History /\ UNCHANGED offbus
    \/ \E w \in Workers : WorkerCheck(w) /\ UNCHANGED offbus
    \/ \E w \in Workers : WorkerGet(w) /\ UNCHANGED offbus
    \/ \E w \in Workers : WorkerEmpty(w) /\ UNCHANGED offbus
    \/ \E w \in Workers : WorkerEmit(w) /\ UNCHANGED offbus
    \/ \E w \in Workers : WorkerReset(w) /\ UNCHANGED offbus
    \/ \E w \in Workers : WorkerAppend(w) /\ UNCHANGED offbus

Spec == Init /\ [][Next]_vars

\* ------------------------------------------------- a bus started only once

StartOnce == thread = 0 /\ Start

NextOnce ==
    \/ StartOnce /\ UNCHANGED offbus
    \/ Stop /\ UNCHANGED offbus
    \/ \E f \in WideFrames : Enqueue(f) /\ UNCHANGED offbus
    \/ History /\ UNCHANGED offbus
    \/ \E w \in Workers : WorkerCheck(w) /\ UNCHANGED offbus
    \/ \E w \in Workers : WorkerGet(w) /\ UNCHANGED offbus
    \/ \E w \in Workers : WorkerEmpty(w) /\ UNCHANGED offbus
    \/ \E w \in Workers : WorkerEmit(w) /\ UNCHANGED offbus
    \/ \E w \in Workers : WorkerReset(w) /\ UNCHANGED offbus
    \/ \E w \in Workers : WorkerAppend(w) /\ UNCHANGED offbus

SpecOnce == Init /\ [][NextOnce]_vars

\* The scheduler runs the worker again and again; a get() on an empty queue
\* ends after its timeout.
FairSpecOnce ==
    SpecOnce /\ \A w \in Workers : WF_vars(Worker(w) /\ UNCHANGED offbus)

\* ------------------------------------------------ the bus with its timing
\* Time passes in Tick steps of 10 ms.  A thread that can run does so before
\* time passes (no scheduling delay); a thread that waits is resumed when its
\* wait ends.  start() is called once.

TStart ==
    /\ cpc = "idle"
    /\ thread = 0
    /\ Start
    /\ UNCHANGED timevars

\* stop(): self._running = False; if self._thread: self._thread.join(timeout=1.0)
TStop ==
    /\ cpc = "idle"
    /\ Stop
    /\ cpc' = IF thread # 0 THEN "joining" ELSE "idle"
    /\ join_timer' = IF thread # 0 THEN JOIN_TIMEOUT ELSE 0
    /\ UNCHANGED timer

\* join() returns: the thread has ended, or the timeout has elapsed
TJoinReturn ==
    /\ cpc = "joining"
    /\ pc[thread] = "exit" \/ join_timer = 0
    /\ cpc' = "idle"
    /\ join_timer' = 0
    /\ UNCHANGED <<busvars, timer>>

TEnqueue(f) == Enqueue(f) /\ UNCHANGED timevars

\* entering get(timeout=0.1) starts its wait
TWorkerCheck(w) ==
    /\ WorkerCheck(w)
    /\ timer' = [timer EXCEPT ![w] = IF running THEN POLL_TIMEOUT ELSE 0]
    /\ UNCHANGED <<cpc, join_timer>>

TWorkerGet(w) ==
    /\ WorkerGet(w)
    /\ timer' = [timer EXCEPT ![w] = 0]
    /\ UNCHANGED <<cpc, join_timer>>

\* queue.Empty is raised once the wait is over
TWorkerEmpty(w) ==
    /\ timer[w] = 0
    /\ WorkerEmpty(w)
    /\ UNCHANGED timevars

\* time.sleep(self.bit_time) follows each write
TWorkerEmit(w) ==
    /\ timer[w] = 0
    /\ WorkerEmit(w)
    /\ timer' = [timer EXCEPT ![w] = BIT_TIME]
    /\ UNCHANGED <<cpc, join_timer>>

TWorkerReset(w) ==
    /\ timer[w] = 0
    /\ WorkerReset(w)
    /\ UNCHANGED timevars

TWorkerAppend(w) == WorkerAppend(w) /\ UNCHANGED timevars

\* worker w is asleep: in get() on an empty queue, or in time.sleep()
Asleep(w) ==
    /\ timer[w] > 0
    /\ \/ pc[w] = "get" /\ tx_queue = <<>>
       \/ pc[w] \in {"emit", "reset"}

Ended(w) == pc[w] \in {"unborn", "exit"}

Tick ==
    /\ \A w \in Workers : Ended(w) \/ Asleep(w)
    /\ cpc = "joining" => join_timer > 0 /\ pc[thread] # "exit"
    /\ cpc = "joining" \/ \E w \in Workers : Asleep(w)
    /\ timer' = [w \in Workers |-> IF Asleep(w) THEN timer[w] - 1 ELSE timer[w]]
    /\ join_timer' = IF cpc = "joining" THEN join_timer - 1 ELSE join_timer
    /\ UNCHANGED <<busvars, cpc>>

TimedNext ==
    \/ TStart /\ UNCHANGED offtimed
    \/ TStop /\ UNCHANGED offtimed
    \/ TJoinReturn /\ UNCHANGED offtimed
    \/ \E f \in BusFrames : TEnqueue(f) /\ UNCHANGED offtimed
    \/ \E w \in Workers : TWorkerCheck(w) /\ UNCHANGED offtimed
    \/ \E w \in Workers : TWorkerGet(w) /\ UNCHANGED offtimed
    \/ \E w \in Workers : TWorkerEmpty(w) /\ UNCHANGED offtimed
    \/ \E w \in Workers : TWorkerEmit(w) /\ UNCHANGED offtimed
    \/ \E w \in Workers : TWorkerReset(w) /\ UNCHANGED offtimed
    \/ \E w \in Workers : TWorkerAppend(w) /\ UNCHANGED offtimed
    \/ Tick /\ UNCHANGED offtimed

TimedSpec == Init /\ [][TimedNext]_vars

\* ------------------------------------ the timed bus, started again after stop
\* As TimedSpec, and start() may be called again once stop() has returned.

\* start() after a stop() that has returned
TRestart ==
    /\ cpc = "idle"
    /\ thread > 0
    /\ ~running
    /\ Start
    /\ UNCHANGED timevars

RestartNext ==
    \/ TStart /\ UNCHANGED offtimed
    \/ TRestart /\ UNCHANGED offtimed
    \/ TStop /\ UNCHANGED offtimed
    \/ TJoinReturn /\ UNCHANGED offtimed
    \/ \E f \in BusFrames : TEnqueue(f) /\ UNCHANGED offtimed
    \/ \E w \in Workers : TWorkerCheck(w) /\ UNCHANGED offtimed
    \/ \E w \in Workers : TWorkerGet(w) /\ UNCHANGED offtimed
    \/ \E w \in Workers : TWorkerEmpty(w) /\ UNCHANGED offtimed
    \/ \E w \in Workers : TWorkerEmit(w) /\ UNCHANGED offtimed
    \/ \E w \in Workers : TWorkerReset(w) /\ UNCHANGED offtimed
    \/ \E w \in Workers : TWorkerAppend(w) /\ UNCHANGED offtimed
    \/ Tick /\ UNCHANGED offtimed

RestartSpec == Init /\ [][RestartNext]_vars

\* ------------------------------------------------- the encoder on its own
\* to_wire_bits applied to frames built directly, whatever their identifier.

\* the identifiers above 0x7FF that are tried: the powers of two up to 2^30,
\* their predecessors, and 0x12345678, 0x15555555, 0x0AAAAAAA
WideIds ==
    {2 ^ k : k \in 11..30} \cup {2 ^ k - 1 : k \in 12..30}
        \cup {305419896, 357913941, 178956970}

EncIds == (0..STD_ID_MAX) \cup WideIds

\* the payloads that are tried: of every length up to 8 bytes, the bytes
\* seed + 37, seed + 74, ... (mod 256)
EncSeeds == {0, 128}

Payload(len, seed) == [i \in 1..len |-> (seed + 37 * i) % 256]

EncPayloads == {Payload(len, seed) : len \in 0..MAX_DLC, seed \in EncSeeds}

EncInit ==
    /\ BusInit
    /\ RestInit
    /\ \E id \in EncIds, data \in EncPayloads, ext \in BOOLEAN :
           enc_frame = CANFrame(id, data, ext, 1)
    /\ enc_out = <<>>

\* bits = frame.to_wire_bits()
Encode ==
    /\ enc_out = <<>>
    /\ enc_out' = to_wire_bits(enc_frame)
    /\ UNCHANGED <<enc_frame, busvars, timevars, parsevars, cmdvars, obsvars>>

EncNext == Encode

EncSpec == EncInit /\ [][EncNext]_vars

\* ------------------------------------------------------------- the parser
\* A str is a sequence of one-character strings.

Whitespace == {" ", "\t"}

UpperHex == <<"0", "1", "2", "3", "4", "5", "6", "7", "8", "9",
              "A", "B", "C", "D", "E", "F">>
LowerHex == <<"0", "1", "2", "3", "4", "5", "6", "7", "8", "9",
              "a", "b", "c", "d", "e", "f">>

IsHexChar(c) == \E v \in 1..16 : UpperHex[v] = c \/ LowerHex[v] = c

hex_value(c) == (CHOOSE v \in 1..16 : UpperHex[v] = c \/ LowerHex[v] = c) - 1

\* str.strip() as int() applies it
RECURSIVE lstrip(_)
lstrip(s) ==
    IF s # <<>> /\ Head(s) \in Whitespace THEN lstrip(Tail(s)) ELSE s

RECURSIVE rstrip(_)
rstrip(s) ==
    IF s # <<>> /\ s[Len(s)] \in Whitespace
    THEN rstrip(SubSeq(s, 1, Len(s) - 1)) ELSE s

strip(s) == rstrip(lstrip(s))

\* int(s, 16) reads: whitespace, a sign, 0x or 0X, then hex digits with
\* single underscores between them, then whitespace
unsigned_part(s) ==
    LET t == strip(s)
    IN IF t # <<>> /\ Head(t) \in {"+", "-"} THEN Tail(t) ELSE t

digits_part(s) ==
    LET u == unsigned_part(s)
        prefixed == Len(u) >= 2 /\ u[1] = "0" /\ u[2] \in {"x", "X"}
        v == IF prefixed THEN SubSeq(u, 3, Len(u)) ELSE u
    IN IF prefixed /\ v # <<>> /\ Head(v) = "_" THEN Tail(v) ELSE v

\* whether int(s, 16) returns rather than raising ValueError
int_ok(s) ==
    LET d == digits_part(s)
    IN /\ d # <<>>
       /\ IsHexChar(d[1])
       /\ IsHexChar(d[Len(d)])
       /\ \A i \in 1..Len(d) :
            \/ IsHexChar(d[i])
            \/ d[i] = "_" /\ IsHexChar(d[i - 1]) /\ IsHexChar(d[i + 1])

RECURSIVE digits_value(_)
digits_value(d) ==
    IF d = <<>> THEN 0
    ELSE IF d[Len(d)] = "_" THEN digits_value(SubSeq(d, 1, Len(d) - 1))
    ELSE 16 * digits_value(SubSeq(d, 1, Len(d) - 1)) + hex_value(d[Len(d)])

\* what int(s, 16) returns when it returns
int_value(s) ==
    LET t == strip(s)
        magnitude == digits_value(digits_part(s))
    IN IF t # <<>> /\ Head(t) = "-" THEN 0 - magnitude ELSE magnitude

\* whether bytes.fromhex(s) returns: pairs of hex digits, whitespace allowed
\* between the pairs only
RECURSIVE fromhex_ok(_)
fromhex_ok(s) ==
    IF s = <<>> THEN TRUE
    ELSE IF Head(s) \in Whitespace THEN fromhex_ok(Tail(s))
    ELSE /\ Len(s) >= 2
         /\ IsHexChar(s[1])
         /\ IsHexChar(s[2])
         /\ fromhex_ok(SubSeq(s, 3, Len(s)))

\* what bytes.fromhex(s) returns when it returns
RECURSIVE fromhex(_)
fromhex(s) ==
    IF s = <<>> THEN <<>>
    ELSE IF Head(s) \in Whitespace THEN fromhex(Tail(s))
    ELSE <<16 * hex_value(s[1]) + hex_value(s[2])>>
             \o fromhex(SubSeq(s, 3, Len(s)))

\* the two ends of a call: raise ValueError(message), or return a frame
Raise(message) == [ok |-> FALSE, exc |-> "ValueError", error |-> message]
Return(f) == [ok |-> TRUE, frame |-> f]

\* raw.split("#", 1): around the first "#"
split_at(raw) ==
    CHOOSE i \in 1..Len(raw) : raw[i] = "#" /\ \A j \in 1..(i - 1) : raw[j] # "#"

\* is_extended = frame_id >= 0x7FF
is_extended_from_max(frame_id) == frame_id >= STD_ID_MAX

\* is_extended = frame_id > 0x7FF
is_extended_of(frame_id) == frame_id > STD_ID_MAX

parse_frame(raw) ==
    IF \A i \in 1..Len(raw) : raw[i] # "#"
    THEN Raise("Use format ID#DATA, e.g. 123#112233")
    ELSE
    LET id_part == SubSeq(raw, 1, split_at(raw) - 1)
        data_part == SubSeq(raw, split_at(raw) + 1, Len(raw))
        frame_id == int_value(id_part)
        is_extended == is_extended_of(frame_id)
    IN IF id_part = <<>>
       THEN Raise("Missing CAN identifier")
       ELSE IF ~int_ok(id_part)
       THEN Raise("invalid literal for int() with base 16")
       ELSE IF data_part # <<>> /\ Len(data_part) % 2 # 0
       THEN Raise("Data must have an even number of hex characters")
       ELSE IF data_part # <<>> /\ Len(data_part) > 16
       THEN Raise("Data length exceeds 8 bytes")
       ELSE IF ~fromhex_ok(data_part)
       THEN Raise("non-hexadecimal number found in fromhex() arg")
       ELSE IF is_extended /\ frame_id > EXT_ID_MAX
       THEN Raise("Extended ID must be <= 0x1FFFFFFF")
       ELSE IF ~is_extended /\ frame_id > STD_ID_MAX
       THEN Raise("Standard ID must be <= 0x7FF")
       ELSE Return([id |-> frame_id, data |-> fromhex(data_part),
                    ext |-> is_extended])

\* the identifier texts tried, from plain hex to what int() also reads
IdTexts ==
    { <<>>, <<"0">>, <<"5">>, <<"1", "2", "3">>, <<"7", "F", "F">>,
      <<"7", "f", "f">>, <<"8", "0", "0">>,
      <<"1", "F", "F", "F", "F", "F", "F", "F">>,
      <<"2", "0", "0", "0", "0", "0", "0", "0">>,
      <<"7", "F", "F", "F", "F", "F", "F", "F">>,
      <<"-", "5">>, <<"-", "8", "0", "0">>, <<"+", "7">>, <<" ", "1", "2">>,
      <<"1", "2", " ">>, <<"1", "_", "0">>, <<"0", "x", "1", "F">>,
      <<"0", "X", "1", "f">>, <<"0", "x", "_", "1", "f">>, <<"0", "x">>,
      <<"_", "1">>, <<"1", "_", "_", "0">>, <<"1", "_">>, <<"-", " ", "5">>,
      <<"1", " ", "2">>, <<"G">>, <<"x", "1">>, <<" ">> }

\* the data texts tried: 0 to 18 characters
DataTexts ==
    { <<>>, <<"5", "A">>, <<"5", "a">>, <<"1">>, <<"1", "2", "3">>,
      <<"G", "G">>, <<"1", "G">>, <<"1", "1", " ", "2", "2">>,
      <<"1", "1", " ", " ", "2", "2">>, <<" ", " ">>,
      <<"1", " ", "1", "2", " ", "2">>, <<"2", "#">>,
      <<"0", "0", "1", "1", "2", "2", "3", "3", "4", "4", "5", "5", "6", "6",
        "F", "F">>,
      <<"0", "0", "1", "1", "2", "2", "3", "3", "4", "4", "5", "5", "6", "6",
        "7", "7", "8">>,
      <<"0", "0", "1", "1", "2", "2", "3", "3", "4", "4", "5", "5", "6", "6",
        "7", "7", "8", "8">>,
      <<"1", "1", " ", " ", " ", " ", " ", " ", " ", " ", " ", " ", " ", " ",
        " ", " ", " ", " ", "2", "2">> }

\* every string of up to three of these characters
ShortChars == {"1", "F", "#", "-", "G", " "}
ShortTexts ==
    UNION { [1..n -> ShortChars] : n \in 0..3 }

\* the strings handed to parse_frame
ParseRaws ==
    { i \o <<"#">> \o d : i \in IdTexts, d \in DataTexts }
        \cup ShortTexts
        \cup { <<"1", "2", "3", " ", "5", "A">> }

ParseInit ==
    /\ BusInit
    /\ enc_frame = NoFrame
    /\ enc_out = <<>>
    /\ parse_raw \in ParseRaws
    /\ parse_out = [ok |-> FALSE, error |-> "none"]
    /\ mpc = "boot"
    /\ cmd_raw = <<>>
    /\ cmd_out = [cmd |-> "none", printed |-> <<>>]
    /\ wire_log = <<>>
    /\ hist_at_stop = 0

\* parse_frame(raw)
Parse ==
    /\ parse_out = [ok |-> FALSE, error |-> "none"]
    /\ parse_out' = parse_frame(parse_raw)
    /\ UNCHANGED <<parse_raw, busvars, timevars, encvars, cmdvars, obsvars>>

ParseNext == Parse

ParseSpec == ParseInit /\ [][ParseNext]_vars

\* --------------------------------------------------------- the command loop

\* level_name
level_name(level) ==
    IF level = RECESSIVE THEN "HIGH (recessive)" ELSE "LOW (dominant)"

\* the descriptors typed after "send ": 123# and 7FF#5A, then one for each
\* way parse_frame raises
CmdRaws ==
    { <<"1", "2", "3", "#">>,
      <<"7", "F", "F", "#", "5", "A">>,
      <<"1", "2", "3">>,
      <<"#", "1", "1">>,
      <<"1", "2", "3", "#", "1">>,
      <<"1", "2", "3", "#", "0", "0", "1", "1", "2", "2", "3", "3", "4", "4",
        "5", "5", "6", "6", "7", "7", "8", "8">>,
      <<"2", "0", "0", "0", "0", "0", "0", "0", "#">>,
      <<"1", "2", "3", "#", "G", "G">>,
      <<"G", "#">> }

\* payload = command[5:].strip(); parse_frame(payload): what it does with
\* each descriptor
parsed_payload == [raw \in CmdRaws |-> parse_frame(strip(raw))]

\* bus = CANBus(bit_time=0.02); bus.start()
MainBoot ==
    /\ mpc = "boot"
    /\ Start
    /\ mpc' = "loop"
    /\ UNCHANGED <<cmd_raw, cmd_out>>

\* send: the frame is enqueued whatever parse_frame did
CmdSend_Unchecked(raw) ==
    /\ mpc = "loop"
    /\ cmd_raw' = raw
    /\ LET parsed == parsed_payload[raw]
       IN /\ Enqueue(IF parsed.ok THEN parsed.frame ELSE NoFrame)
          /\ cmd_out' = IF parsed.ok
                        THEN [cmd |-> "send",
                              printed |-> <<"Frame queued for transmission.">>]
                        ELSE [cmd |-> "send",
                              printed |-> <<"Invalid frame:", parsed.error>>]
    /\ UNCHANGED mpc

\* send ID#DATA: parse, and on ValueError print and continue, else enqueue
CmdSend(raw) ==
    /\ mpc = "loop"
    /\ cmd_raw' = raw
    /\ LET parsed == parsed_payload[raw]
       IN IF parsed.ok
          THEN /\ Enqueue(parsed.frame)
               /\ cmd_out' = [cmd |-> "send",
                              printed |-> <<"Frame queued for transmission.">>]
          ELSE /\ parsed.exc = "ValueError"
               /\ cmd_out' = [cmd |-> "send",
                              printed |-> <<"Invalid frame:", parsed.error>>]
               /\ UNCHANGED busvars
    /\ UNCHANGED mpc

\* interpret: interpret_messages(bus.history())
CmdInterpret ==
    /\ mpc = "loop"
    /\ History
    /\ cmd_out' = [cmd |-> "interpret",
                   printed |-> IF history = <<>>
                               THEN <<"No messages received on the bus yet.">>
                               ELSE <<"Decoded bus messages:">>]
    /\ UNCHANGED <<mpc, cmd_raw>>

\* status
CmdStatus ==
    /\ mpc = "loop"
    /\ cmd_out' = [cmd |-> "status",
                   printed |-> <<"Current bus state:", level_name(current_level)>>]
    /\ UNCHANGED <<mpc, cmd_raw, busvars>>

\* help
CmdHelp ==
    /\ mpc = "loop"
    /\ cmd_out' = [cmd |-> "help", printed |-> <<"Commands:">>]
    /\ UNCHANGED <<mpc, cmd_raw, busvars>>

\* anything else
CmdUnknown ==
    /\ mpc = "loop"
    /\ cmd_out' = [cmd |-> "unknown", printed |-> <<"Unknown command.">>]
    /\ UNCHANGED <<mpc, cmd_raw, busvars>>

\* quit, exit: break, and the finally clause calls bus.stop()
CmdQuit ==
    /\ mpc = "loop"
    /\ Stop
    /\ mpc' = "joining"
    /\ UNCHANGED <<cmd_raw, cmd_out>>

\* the join in stop() returns, main returns and the daemon worker dies with it
MainExit ==
    /\ mpc = "joining"
    /\ mpc' = "done"
    /\ UNCHANGED <<cmd_raw, cmd_out, busvars>>

\* the worker runs as long as the process does
MainWorker(w) ==
    /\ mpc \in {"loop", "joining"}
    /\ Worker(w)
    /\ UNCHANGED cmdvars

MainNext ==
    \/ MainBoot /\ UNCHANGED <<timevars, encvars, parsevars, obsvars>>
    \/ (\E raw \in CmdRaws : CmdSend(raw))
           /\ UNCHANGED <<timevars, encvars, parsevars, obsvars>>
    \/ CmdInterpret /\ UNCHANGED <<timevars, encvars, parsevars, obsvars>>
    \/ CmdStatus /\ UNCHANGED <<timevars, encvars, parsevars, obsvars>>
    \/ CmdHelp /\ UNCHANGED <<timevars, encvars, parsevars, obsvars>>
    \/ CmdUnknown /\ UNCHANGED <<timevars, encvars, parsevars, obsvars>>
    \/ CmdQuit /\ UNCHANGED <<timevars, encvars, parsevars, obsvars>>
    \/ MainExit /\ UNCHANGED <<timevars, encvars, parsevars, obsvars>>
    \/ (\E w \in Workers : MainWorker(w))
           /\ UNCHANGED <<timevars, encvars, parsevars, obsvars>>

MainSpec == Init /\ [][MainNext]_vars

\* ------------------------------------- a bus started once, under observation
\* wire_log takes every value a step assigns to current_level since the last
\* get(); hist_at_stop takes len(_history) when stop() clears a set flag.

ObsStart ==
    /\ StartOnce
    /\ UNCHANGED obsvars

ObsStop ==
    /\ Stop
    /\ hist_at_stop' = IF running THEN Len(history) ELSE hist_at_stop
    /\ UNCHANGED wire_log

ObsEnqueue(f) ==
    /\ Enqueue(f)
    /\ UNCHANGED obsvars

ObsHistory ==
    /\ History
    /\ UNCHANGED obsvars

ObsWorkerCheck(w) ==
    /\ WorkerCheck(w)
    /\ UNCHANGED obsvars

ObsWorkerGet(w) ==
    /\ WorkerGet(w)
    /\ wire_log' = <<>>
    /\ UNCHANGED hist_at_stop

ObsWorkerEmpty(w) ==
    /\ WorkerEmpty(w)
    /\ UNCHANGED obsvars

ObsWorkerEmit(w) ==
    /\ WorkerEmit(w)
    /\ wire_log' = Append(wire_log, current_level')
    /\ UNCHANGED hist_at_stop

ObsWorkerReset(w) ==
    /\ WorkerReset(w)
    /\ wire_log' = Append(wire_log, current_level')
    /\ UNCHANGED hist_at_stop

ObsWorkerAppend(w) ==
    /\ WorkerAppend(w)
    /\ UNCHANGED obsvars

ObsNext ==
    \/ ObsStart /\ UNCHANGED <<timevars, encvars, parsevars, cmdvars>>
    \/ ObsStop /\ UNCHANGED <<timevars, encvars, parsevars, cmdvars>>
    \/ (\E f \in WideFrames : ObsEnqueue(f))
           /\ UNCHANGED <<timevars, encvars, parsevars, cmdvars>>
    \/ ObsHistory /\ UNCHANGED <<timevars, encvars, parsevars, cmdvars>>
    \/ (\E w \in Workers : ObsWorkerCheck(w))
           /\ UNCHANGED <<timevars, encvars, parsevars, cmdvars>>
    \/ (\E w \in Workers : ObsWorkerGet(w))
           /\ UNCHANGED <<timevars, encvars, parsevars, cmdvars>>
    \/ (\E w \in Workers : ObsWorkerEmpty(w))
           /\ UNCHANGED <<timevars, encvars, parsevars, cmdvars>>
    \/ (\E w \in Workers : ObsWorkerEmit(w))
           /\ UNCHANGED <<timevars, encvars, parsevars, cmdvars>>
    \/ (\E w \in Workers : ObsWorkerReset(w))
           /\ UNCHANGED <<timevars, encvars, parsevars, cmdvars>>
    \/ (\E w \in Workers : ObsWorkerAppend(w))
           /\ UNCHANGED <<timevars, encvars, parsevars, cmdvars>>

ObsSpec == Init /\ [][ObsNext]_vars

\* ------------------------------------------------------------ properties

IsPrefix(a, b) == Len(a) <= Len(b) /\ SubSeq(b, 1, Len(a)) = a

\* worker w is between dequeuing a frame and appending it to the history
InFlight(w) == pc[w] \in {"emit", "reset", "append"}

\* worker w's loop has been started and has not returned
Live(w) == pc[w] \notin {"unborn", "exit"}

NoneInFlight == \A w \in Workers : ~InFlight(w)

\* the number whose binary digits, most significant first, are b
RECURSIVE bits_value(_)
bits_value(b) ==
    IF b = <<>> THEN 0
    ELSE 2 * bits_value(SubSeq(b, 1, Len(b) - 1)) + b[Len(b)]

IsBits(b) == \A i \in 1..Len(b) : b[i] \in {0, 1}

Encoded == enc_out # <<>>

\* C1 (SpecOnce): on a bus started once, history() is at every moment a
\* prefix of the frames in the order they were enqueued, and it is exactly
\* that list once no frame is pending or in flight.
C1_FifoOrder ==
    /\ IsPrefix(history, sent)
    /\ (tx_queue = <<>> /\ NoneInFlight) => history = sent

C1_Witness ==
    /\ Len(sent) = 2
    /\ history = sent
    /\ sent[1].id # sent[2].id

\* C2 (Spec): whenever no worker is between dequeuing a frame and appending
\* it, current_level is RECESSIVE; so a DOMINANT level is only seen while a
\* frame is in flight.
C2_IdleRecessive == NoneInFlight => current_level = RECESSIVE

C2_Witness ==
    /\ NoneInFlight
    /\ history # <<>>
    /\ tx_queue # <<>>
    /\ current_level = RECESSIVE

\* C3 (Spec): under every sequence of start(), stop() and enqueue() calls at
\* most one transmission loop is live and at most one frame is in flight.
C3_OneLoop ==
    /\ Cardinality({w \in Workers : Live(w)}) <= 1
    /\ Cardinality({w \in Workers : InFlight(w)}) <= 1

\* what a worker in flight does in one step of the system, whatever the flag
C4_Step(w) ==
    LET wire == to_wire_bits(frame[w]) IN
    \/ pc'[w] = pc[w] /\ index'[w] = index[w] /\ frame'[w] = frame[w]
    \/ /\ pc[w] = "emit"
       /\ index[w] \in 1..Len(wire)
       /\ current_level' = level_of(wire[index[w]])
       /\ index'[w] = index[w] + 1
       /\ frame'[w] = frame[w]
       /\ pc'[w] = IF index[w] = Len(wire) THEN "reset" ELSE "emit"
    \/ /\ pc[w] = "reset"
       /\ index[w] = Len(wire) + 1
       /\ current_level' = RECESSIVE
       /\ frame'[w] = frame[w]
       /\ pc'[w] = "append"
    \/ /\ pc[w] = "append"
       /\ history' = Append(history, frame[w])
       /\ pc'[w] = "check"

\* C4 (FairSpecOnce): a worker that has dequeued a frame emits its bits one after
\* the other up to the last, then resets the level, then appends the frame,
\* and no step of it in between depends on the running flag; the frame does
\* reach the history.
C4_RunsToCompletion ==
    /\ [][\A w \in Workers : InFlight(w) => C4_Step(w)]_vars
    /\ \A k \in 1..MaxEnq :
          (\E w \in Workers : InFlight(w) /\ frame[w].ts = k)
              ~> (\E i \in 1..Len(history) : history[i].ts = k)

C4_Witness ==
    /\ ~running
    /\ \E w \in Workers : pc[w] = "append"

\* C5 (FairSpecOnce): once stop() has cleared the flag the worker loop
\* returns, whatever is left in the queue: the worker begins no further get(),
\* at the loop test it leaves the loop, and once returned it stays so.
C5_StopTerminates ==
    /\ ~running ~> (\A w \in Workers : ~Live(w))
    /\ [][~running =>
            \A w \in Workers :
               /\ pc'[w] = "get" => pc[w] = "get"
               /\ pc[w] = "check" => pc'[w] \in {"check", "exit"}
               /\ pc[w] = "exit" => pc'[w] = "exit"]_vars

C5_Witness ==
    /\ ~running
    /\ thread # 0
    /\ \A w \in Workers : ~Live(w)
    /\ tx_queue # <<>>

\* C6 (TimedSpec): with nothing ever enqueued, the join() in stop() returns
\* because the worker has returned, with at least the join timeout less the
\* get timeout still to run, the history empty and the level RECESSIVE.
C6_IdleStopJoins ==
    [][(cpc = "joining" /\ cpc' = "idle" /\ sent = <<>>) =>
          /\ pc[thread] = "exit"
          /\ join_timer >= JOIN_TIMEOUT - POLL_TIMEOUT
          /\ join_timer > 0
          /\ history = <<>>
          /\ current_level = RECESSIVE]_vars

C6_Witness ==
    /\ sent = <<>>
    /\ thread = 1
    /\ ~running
    /\ cpc = "idle"
    /\ pc[1] = "exit"
    /\ history = <<>>

\* C7 (Spec): the history only grows, one frame at a time and at its end; the
\* list a history() call returns is the history of that moment, stays as it
\* is when frames are appended later, and is a prefix of every later result.
C7_HistorySnapshots ==
    /\ [](IsPrefix(snap, history))
    /\ [][/\ IsPrefix(history, history')
          /\ Len(history') <= Len(history) + 1
          /\ IsPrefix(snap, snap')
          /\ snap' # snap => snap' = history
          /\ history' # history => snap' = snap]_vars

C7_Witness ==
    /\ snap # <<>>
    /\ Len(history) > Len(snap)

\* C8 (EncSpec): a standard frame with 0 <= id <= 0x7FF and at most 8 payload
\* bytes is encoded in 1 + 11 + 3 + 4 + 8 * len + 15 + 3 + 7 bits, and bits 2
\* to 12 are the identifier in binary, most significant bit first.
C8_StandardLayout ==
    (/\ Encoded
     /\ ~enc_frame.ext
     /\ enc_frame.id \in 0..STD_ID_MAX
     /\ Len(enc_frame.data) <= MAX_DLC)
    => /\ Len(enc_out) = 1 + 11 + 3 + 4 + 8 * Len(enc_frame.data) + 15 + 3 + 7
       /\ IsBits(SubSeq(enc_out, 2, 12))
       /\ bits_value(SubSeq(enc_out, 2, 12)) = enc_frame.id

C8_Witness ==
    /\ Encoded
    /\ ~enc_frame.ext
    /\ enc_frame.id = 1193
    /\ Len(enc_frame.data) = 8

\* C9 (EncSpec): an extended frame with 0x7FF < id <= 0x1FFFFFFF and at most
\* 8 payload bytes carries its identifier in 29 bits, most significant first,
\* then two RECESSIVE bits, then the data-length field, in 1 + 29 + 2 + 4 +
\* 8 * len + 15 + 3 + 7 bits in all; a standard frame carries three DOMINANT
\* bits between its 11 identifier bits and the data-length field.
C9_ExtendedLayout ==
    /\ (/\ Encoded
        /\ enc_frame.ext
        /\ enc_frame.id \in (STD_ID_MAX + 1)..EXT_ID_MAX
        /\ Len(enc_frame.data) <= MAX_DLC)
       => /\ Len(enc_out) = 1 + 29 + 2 + 4 + 8 * Len(enc_frame.data) + 15 + 3 + 7
          /\ IsBits(SubSeq(enc_out, 2, 30))
          /\ bits_value(SubSeq(enc_out, 2, 30)) = enc_frame.id
          /\ SubSeq(enc_out, 31, 32) = <<RECESSIVE, RECESSIVE>>
          /\ Len(enc_out) - (4 + 8 * Len(enc_frame.data) + 15 + 3 + 7) = 32
    /\ (/\ Encoded
        /\ ~enc_frame.ext
        /\ enc_frame.id \in 0..STD_ID_MAX
        /\ Len(enc_frame.data) <= MAX_DLC)
       => /\ SubSeq(enc_out, 13, 15) = <<DOMINANT, DOMINANT, DOMINANT>>
          /\ Len(enc_out) - (4 + 8 * Len(enc_frame.data) + 15 + 3 + 7) = 15

C9_Witness ==
    /\ Encoded
    /\ enc_frame.ext
    /\ enc_frame.id = EXT_ID_MAX
    /\ Len(enc_frame.data) = 8

\* where the format-control bits of a frame end
ControlEnd(f) == IF f.ext THEN 1 + 29 + 2 ELSE 1 + 11 + 3

\* C10 (EncSpec): for every frame with at most 8 payload bytes, the four bits
\* after the format-control bits are the payload length in binary, most
\* significant bit first.
C10_DataLength ==
    (Encoded /\ Len(enc_frame.data) <= MAX_DLC)
    => LET field == SubSeq(enc_out, ControlEnd(enc_frame) + 1,
                           ControlEnd(enc_frame) + 4)
       IN /\ Len(field) = 4
          /\ IsBits(field)
          /\ bits_value(field) = Len(enc_frame.data)

C10_Witness ==
    /\ Encoded
    /\ enc_frame.ext
    /\ enc_frame.id = 2048
    /\ Len(enc_frame.data) = 5

\* the bits of payload byte j in the output
ByteField(f, out, j) ==
    SubSeq(out, ControlEnd(f) + 4 + 8 * (j - 1) + 1, ControlEnd(f) + 4 + 8 * j)

\* C11 (EncSpec): every encoding starts with one DOMINANT bit, carries the
\* payload bytes in their order, each in 8 bits most significant first, right
\* after the data-length field, and ends with 25 RECESSIVE bits that follow
\* the last payload bit, with nothing after them.
C11_FrameEnvelope ==
    Encoded =>
       /\ enc_out[1] = DOMINANT
       /\ \A j \in 1..Len(enc_frame.data) :
             /\ IsBits(ByteField(enc_frame, enc_out, j))
             /\ bits_value(ByteField(enc_frame, enc_out, j)) = enc_frame.data[j]
       /\ Len(enc_out) = ControlEnd(enc_frame) + 4 + 8 * Len(enc_frame.data) + 25
       /\ \A i \in (Len(enc_out) - 24)..Len(enc_out) : enc_out[i] = RECESSIVE

C11_Witness ==
    /\ Encoded
    /\ ~enc_frame.ext
    /\ enc_frame.id = 0
    /\ Len(enc_frame.data) = 3
    /\ enc_frame.data[1] # enc_frame.data[3]

\* the frame's identifier does not fit the width its class gives it
TooWide(f) ==
    \/ ~f.ext /\ f.id > STD_ID_MAX
    \/ f.ext /\ f.id > EXT_ID_MAX

IdBits(f) == IF f.ext THEN 29 ELSE 11

RegularLength(f) ==
    1 + IdBits(f) + (IF f.ext THEN 2 ELSE 3) + 4 + 8 * Len(f.data) + 15 + 3 + 7

\* C16 as stated (EncSpec): a frame whose identifier is too wide for its
\* class is encoded in a number of bits other than 1 + N + (2 or 3) + 4 +
\* 8 * len + 15 + 3 + 7.
C16_MalformedCount ==
    (Encoded /\ TooWide(enc_frame)) => Len(enc_out) # RegularLength(enc_frame)

\* C16 as amended (EncSpec): a frame whose identifier is too wide for its
\* class is encoded in the regular number of bits, and its identifier field
\* holds the identifier's low N bits, the higher bits being dropped.
C16_TruncatedId ==
    (Encoded /\ TooWide(enc_frame)) =>
       /\ Len(enc_out) = RegularLength(enc_frame)
       /\ IsBits(SubSeq(enc_out, 2, 1 + IdBits(enc_frame)))
       /\ bits_value(SubSeq(enc_out, 2, 1 + IdBits(enc_frame)))
             = enc_frame.id % (2 ^ IdBits(enc_frame))
       /\ bits_value(SubSeq(enc_out, 2, 1 + IdBits(enc_frame))) # enc_frame.id

C16_Witness ==
    /\ Encoded
    /\ ~enc_frame.ext
    /\ enc_frame.id = 2048
    /\ Len(enc_frame.data) = 2

\* parse_frame has been called and has returned or raised
Parsed == parse_out # [ok |-> FALSE, error |-> "none"]

\* C12: every frame parse_frame returns has a non-negative identifier, an
\* identifier of at most 0x7FF when it is not extended and of at most
\* 0x1FFFFFFF when it is, and a payload of at most 8 bytes.
C12_WidthInvariants ==
    (Parsed /\ parse_out.ok) =>
        /\ parse_out.frame.id >= 0
        /\ ~parse_out.frame.ext => parse_out.frame.id <= 2047
        /\ parse_out.frame.ext => parse_out.frame.id <= 536870911
        /\ Len(parse_out.frame.data) <= 8

\* the text before the first "#", the text after it
IdText(raw) == SubSeq(raw, 1, split_at(raw) - 1)
DataText(raw) == SubSeq(raw, split_at(raw) + 1, Len(raw))

HasHash(raw) == \E i \in 1..Len(raw) : raw[i] = "#"

\* an even number, at most 16, of hex digits and nothing else
WellFormedData(d) ==
    /\ Len(d) % 2 = 0
    /\ Len(d) <= 16
    /\ \A i \in 1..Len(d) : IsHexChar(d[i])

\* C14: an accepted descriptor yields is_extended_id exactly when the
\* identifier is above 0x7FF, "800#" yields an extended frame with an empty
\* payload, and an identifier above 0x1FFFFFFF with empty or well-formed data
\* is rejected with the extended-range error.
C14_ExtendedFlag ==
    Parsed =>
        /\ parse_out.ok => (parse_out.frame.ext <=> parse_out.frame.id > 2047)
        /\ parse_raw = <<"8", "0", "0", "#">> =>
              /\ parse_out.ok
              /\ parse_out.frame.ext
              /\ parse_out.frame.id = 2048
              /\ parse_out.frame.data = <<>>
        /\ ( /\ HasHash(parse_raw)
             /\ int_ok(IdText(parse_raw))
             /\ int_value(IdText(parse_raw)) > 536870911
             /\ WellFormedData(DataText(parse_raw)) ) =>
              /\ ~parse_out.ok
              /\ parse_out.exc = "ValueError"
              /\ parse_out.error = "Extended ID must be <= 0x1FFFFFFF"

C14_Witness ==
    /\ Parsed
    /\ parse_raw = <<"8", "0", "0", "#">>
    /\ parse_out.ok
    /\ parse_out.frame.ext

\* the ways the descriptor can be wrong that are told from its text alone
Listed(raw) ==
    \/ ~HasHash(raw)
    \/ HasHash(raw) /\ IdText(raw) = <<>>
    \/ HasHash(raw) /\ Len(DataText(raw)) % 2 = 1
    \/ HasHash(raw) /\ Len(DataText(raw)) > 16
    \/ HasHash(raw) /\ IdText(raw) # <<>>
          /\ (\A i \in 1..Len(IdText(raw)) : IsHexChar(IdText(raw)[i]))
          /\ digits_value(IdText(raw)) > 536870911
    \/ \E i \in 1..Len(raw) : raw[i] \in {"G", "g", "Z", "z"}

\* a step that is a send command
SendStep ==
    <<cmd_raw, cmd_out>>' # <<cmd_raw, cmd_out>> /\ cmd_out'.cmd = "send"

\* the descriptors typed that parse_frame raises on, and the error of each
RejectedRaws == { raw \in CmdRaws : ~parse_frame(strip(raw)).ok }
ErrorOf == [raw \in RejectedRaws |-> parse_frame(strip(raw))]
ListedRaws == { raw \in CmdRaws : Listed(raw) }

\* C13: a send whose descriptor parse_frame rejects (no "#", no identifier,
\* odd or more than 16 data digits, identifier above 0x1FFFFFFF, non-hex
\* text) prints the ValueError, enqueues nothing, leaves the pending queue,
\* the history and current_level as they were, and the loop goes on.
C13_RejectedSend ==
    [][ /\ ListedRaws \subseteq RejectedRaws
        /\ (SendStep /\ cmd_raw' \in RejectedRaws) =>
              /\ ErrorOf[cmd_raw'].exc = "ValueError"
              /\ cmd_out'.printed = <<"Invalid frame:", ErrorOf[cmd_raw'].error>>
              /\ tx_queue' = tx_queue
              /\ sent' = sent
              /\ history' = history
              /\ current_level' = current_level
              /\ mpc = "loop" /\ mpc' = "loop"
      ]_vars

\* a rejected send printed its error while a frame was pending and another
\* was on the wire
C13_Witness ==
    /\ cmd_out.cmd = "send"
    /\ Len(cmd_out.printed) = 2
    /\ cmd_out.printed[1] = "Invalid frame:"
    /\ tx_queue # <<>>
    /\ \E w \in Workers : pc[w] = "emit"

\* some worker moved
WorkerStep ==
    \E w \in Workers :
        pc[w] # "unborn" /\ <<pc[w], index[w]>>' # <<pc[w], index[w]>>

\* enqueue(frame) can be called
CanEnqueue == \A f \in WideFrames : ENABLED Enqueue(f)

\* C15: enqueue() can be called in every engine state, appends exactly its
\* frame at the tail of the pending queue and leaves current_level, the
\* history and the running flag alone; history() changes nothing of the bus;
\* only a worker step writes current_level or appends to the history.
C15_CallersWriteNothing ==
    /\ [](Len(sent) < MaxEnq => CanEnqueue)
    /\ [][ /\ sent' # sent =>
                /\ Len(sent') = Len(sent) + 1
                /\ SubSeq(sent', 1, Len(sent)) = sent
                /\ Len(tx_queue') = Len(tx_queue) + 1
                /\ SubSeq(tx_queue', 1, Len(tx_queue)) = tx_queue
                /\ tx_queue'[Len(tx_queue')] = sent'[Len(sent')]
                /\ UNCHANGED <<current_level, history, running, thread, pc, snap>>
           /\ snap' # snap =>
                /\ snap' = history
                /\ UNCHANGED <<current_level, tx_queue, history, running, thread,
                               pc, frame, bits, index, sent>>
           /\ (current_level' # current_level \/ history' # history) =>
                /\ WorkerStep
                /\ UNCHANGED <<running, thread, sent, snap>>
           /\ ~WorkerStep => UNCHANGED <<current_level, history>>
         ]_vars

\* a frame is pending on a stopped engine whose worker is still mid-frame
C15_Witness ==
    /\ ~running
    /\ thread > 0
    /\ tx_queue # <<>>
    /\ \E w \in Workers : pc[w] = "emit"

\* bit 1 is written as RECESSIVE, bit 0 as DOMINANT
LevelsOf(bs) == [i \in 1..Len(bs) |-> IF bs[i] = 1 THEN RECESSIVE ELSE DOMINANT]

\* what a whole transmission of f writes
Transmission(f) == LevelsOf(to_wire_bits(f)) \o <<RECESSIVE>>

\* C17: on a bus started once, the values written to current_level from the
\* dequeue of a frame to its append are the frame's wire bits in order, as
\* levels, then one RECESSIVE, and nothing else.
C17_WireSequence ==
    \A w \in Workers :
        /\ pc[w] \in {"emit", "reset"} =>
              /\ Len(wire_log) = index[w] - 1
              /\ IsPrefix(wire_log, Transmission(frame[w]))
        /\ pc[w] = "append" => wire_log = Transmission(frame[w])

\* the transmission of 2AA#5A is complete and about to be appended
C17_Witness ==
    \E w \in Workers :
        /\ pc[w] = "append"
        /\ frame[w].data = <<90>>
        /\ Len(wire_log) = 53

\* the frames a worker holds between get() and append
InFlightCount == Cardinality({ w \in Workers : InFlight(w) })

\* C18: once stop() has cleared the flag and start() is not called again, the
\* worker appends at most one more frame, the one in flight or the one its
\* pending get() obtains, and every other pending frame stays in the queue.
C18_AtMostOneMore ==
    (~running /\ thread > 0) =>
        /\ Len(history) + InFlightCount <= hist_at_stop + 1
        /\ \A w \in Workers : InFlight(w) =>
              /\ history \o <<frame[w]>> \o tx_queue = sent
        /\ NoneInFlight => history \o tx_queue = sent
        /\ (\A w \in Workers : pc[w] \in {"unborn", "exit"}) =>
              \A i \in (hist_at_stop + 2)..Len(sent) :
                  \E j \in 1..Len(tx_queue) : tx_queue[j] = sent[i]

\* the worker has ended after stop(), having appended one more frame, and a
\* frame is left in the queue
C18_Witness ==
    /\ ~running
    /\ \E w \in Workers : pc[w] = "exit"
    /\ Len(history) = hist_at_stop + 1
    /\ tx_queue # <<>>

\* the elements of a sequence
Range(s) == { s[i] : i \in 1..Len(s) }

\* the frames some worker holds between get() and append
Flying == { frame[w] : w \in { v \in Workers : InFlight(v) } }

\* C19: under any interleaving, with any number of workers, every enqueued
\* frame is in exactly one place among the pending queue, one worker's hands
\* and the history, and nothing is in those places that was not enqueued.
C19_Conservation ==
    /\ Range(tx_queue) \cup Flying \cup Range(history) = Range(sent)
    /\ Len(tx_queue) + InFlightCount + Len(history) = Len(sent)
    /\ \A i \in 1..Len(sent) : sent[i].ts = i

\* two workers each hold a frame
C19_Witness ==
    /\ Cardinality(Flying) = 2
    /\ Len(sent) = 2

\* C20: the frames a stop() leaves in the pending queue are transmitted in
\* FIFO order after a later start(): one after the other, the history
\* following the order of the enqueue() calls.
C20_RestartFifo ==
    /\ IsPrefix(history, sent)
    /\ \A v, w \in Workers : (InFlight(v) /\ InFlight(w)) => v = w

====
